---- MODULE Spec2Model ----
(***************************************************************************)
(* Model of the NIBOR Terminal repository: the launcher scripts            *)
(* (NIBOR_Recon.pyw, the fixed-path launcher, start_nibor.vbs, the runpy   *)
(* launcher), create_shortcut.bat, and the application behaviour that the  *)
(* two debugging reports quote (Excel refresh worker, NOK Implied page,    *)
(* NIBOR day-file loading).                                                *)
(*                                                                         *)
(* A path string is a sequence of tokens: a token is the separator SEP or  *)
(* a name (a drive, a directory or file name, "..").  Concatenating two    *)
(* strings is \o on the token sequences.                                   *)
(***************************************************************************)
EXTENDS Integers, Sequences, FiniteSets, TLC

VARIABLES
    \* ---- launchers and create_shortcut.bat
    kind,          \* which script this process runs
    launcherDir,   \* directory that holds the script file (a Windows path string)
    cwd,           \* current working directory of the launching process
    fileArg,       \* __file__ / WScript.ScriptFullName / %0 as the interpreter got it
    home,          \* the user's home directory (USERPROFILE, Path.home())
    pc,            \* position of the script
    script_dir,    \* script_dir of NIBOR_Recon.pyw and of the runpy launcher
    project_dir,   \* project_dir of the fixed-path launcher
    scriptDir,     \* scriptDir of start_nibor.vbs
    SCRIPT_DIR,    \* %SCRIPT_DIR% of create_shortcut.bat
    DESKTOP,       \* %DESKTOP% of create_shortcut.bat
    sys_path,      \* sys.path of the runpy launcher
    main,          \* main.py: [state, cwd, script, inProcess]
    iconExists,    \* does <script dir>\assets\icon.ico exist
    pythonwDirs,   \* the directories that hold a pythonw.exe
    tempScript,    \* %TEMP%\CreateShortcut.vbs: [exists, lines]
    shortcut,      \* the .lnk file the generated script saved: [exists, file, ...]
    \* ---- main.py / ui_pages.py: Excel refresh and the NOK Implied page
    recon_data,          \* excel_engine.recon_data: (row, col) -> value
    cached_excel_data,   \* app.cached_excel_data
    pendingApply,        \* _apply_excel_result calls scheduled and not yet run
    display,             \* NOK Implied table: display[ccy][row] = [bbg, exc, implied]
    refreshes,           \* refresh workers run so far
    lastOp,              \* the operation that ran last: [op, ok, proceeded]
    okApplied,           \* history: _apply_excel_result has run with excel_ok true
    \* ---- engines.py: NIBOR day files
    dayFiles,      \* what reading each of DAY_FILES gives: [outcome, rows]
    today,         \* the current date
    dayPc,         \* position of the background loading thread
    fileIdx,       \* the day file the thread is at
    dfs,           \* the dataframes read so far
    day_data,      \* the loaded day data: a sequence of rows, a row being its date
    dayLoaded,     \* day data has been loaded
    dayLog,        \* the console log of the loading thread: a sequence of levels
    future         \* the last call of get_future_days_data: [called, limit, of, rows]

launchVars == <<kind, launcherDir, cwd, fileArg, home, pc, script_dir, project_dir,
                scriptDir, SCRIPT_DIR, DESKTOP, sys_path, main, iconExists,
                pythonwDirs, tempScript, shortcut>>

excelVars == <<recon_data, cached_excel_data, pendingApply, display, refreshes, lastOp,
               okApplied>>

dayVars == <<dayFiles, today, dayPc, fileIdx, dfs, day_data, dayLoaded, dayLog, future>>

vars == <<launchVars, excelVars, dayVars>>

(***************************************************************************)
(* Windows paths                                                           *)
(***************************************************************************)
SEP == "\\"
Drive == "C:"
Root == <<Drive, SEP>>

\* Bound: the deepest directory a launcher, a working directory or a home is drawn from.
MaxDepth == 2

DirNames == {"Users", "proj"}

\* directory component lists below the drive, up to MaxDepth deep
DirComps == UNION {[1..n -> DirNames] : n \in 0..MaxDepth}

RECURSIVE JoinSep(_)
\* the names of a component list separated by SEP
JoinSep(comps) ==
    IF comps = <<>> THEN <<>>
    ELSE IF Len(comps) = 1 THEN comps
    ELSE <<Head(comps), SEP>> \o JoinSep(Tail(comps))

\* the absolute path string of a component list: C:\ or C:\a\b
PathStr(comps) == Root \o JoinSep(comps)

\* the names of a path string, drive and separators dropped
Comps(p) ==
    SelectSeq(p, LAMBDA t : t # SEP /\ t # Drive)

IsAbs(p) == Len(p) >= 2 /\ p[1] = Drive /\ p[2] = SEP

\* ntpath.join of a directory and a relative path
Join(a, b) ==
    IF a = <<>> THEN b
    ELSE IF a[Len(a)] = SEP THEN a \o b ELSE a \o <<SEP>> \o b

RECURSIVE Collapse(_, _)
\* ntpath.normpath on the names: ".." removes the name before it, and stays at the root
Collapse(done, rest) ==
    IF rest = <<>> THEN done
    ELSE IF Head(rest) = ".."
         THEN Collapse(IF done = <<>> THEN <<>> ELSE SubSeq(done, 1, Len(done) - 1), Tail(rest))
    ELSE IF Head(rest) = "."
         THEN Collapse(done, Tail(rest))
    ELSE Collapse(Append(done, Head(rest)), Tail(rest))

NormPath(p) == PathStr(Collapse(<<>>, Comps(p)))

\* faulty variant: __file__ taken as it is, never joined to the current directory
AbsPathAsGiven(p, dir) == p

\* os.path.abspath: a relative path is joined to the current directory, then normalised
AbsPath(p, dir) == NormPath(IF IsAbs(p) THEN p ELSE Join(dir, p))

\* index of the last separator of a string, 0 when it has none
LastSep(p) ==
    IF \A i \in 1..Len(p) : p[i] # SEP THEN 0
    ELSE CHOOSE i \in 1..Len(p) : p[i] = SEP /\ \A j \in (i+1)..Len(p) : p[j] # SEP

\* os.path.dirname: everything before the last separator, the root keeping its
\* separator; empty for a bare file name
Dirname(p) ==
    IF LastSep(p) = 0 THEN <<>>
    ELSE IF IsAbs(p) /\ LastSep(p) = 2 THEN SubSeq(p, 1, 2)
    ELSE SubSeq(p, 1, LastSep(p) - 1)

\* Scripting.FileSystemObject.GetParentFolderName
GetParentFolderName(p) ==
    IF LastSep(p) = 2 THEN SubSeq(p, 1, 2) ELSE SubSeq(p, 1, LastSep(p) - 1)

\* faulty variant: the batch file's directory without its trailing separator
BatchDp0NoSep(p) == SubSeq(p, 1, LastSep(p) - 1)

\* %~dp0: drive and path of the batch file, always ending in a separator
BatchDp0(p) == SubSeq(p, 1, LastSep(p))

\* the directory a process is given as its working directory, as the system reports
\* it back: without a trailing separator, except for the root
NormDir(p) ==
    IF Len(p) > 2 /\ p[Len(p)] = SEP THEN SubSeq(p, 1, Len(p) - 1) ELSE p

RECURSIVE CommonPrefix(_, _)
CommonPrefix(a, b) ==
    IF a = <<>> \/ b = <<>> \/ Head(a) # Head(b) THEN 0
    ELSE 1 + CommonPrefix(Tail(a), Tail(b))

\* the relative spelling of the file toComps as typed from the directory fromComps
RelPath(fromComps, toComps) ==
    LET k == CommonPrefix(fromComps, toComps)
    IN  JoinSep([i \in 1..(Len(fromComps) - k) |-> ".."]
                \o SubSeq(toComps, k + 1, Len(toComps)))

(***************************************************************************)
(* The launchers                                                           *)
(***************************************************************************)
Kinds == {"recon", "fixed", "vbs", "runpy", "bat"}

\* the file name of each script
LauncherFile(k) ==
    CASE k = "recon" -> "NIBOR_Recon.pyw"
      [] k = "fixed" -> "NIBOR_Recon_anywhere.pyw"
      [] k = "vbs"   -> "start_nibor.vbs"
      [] k = "runpy" -> "nibor_terminal.pyw"
      [] k = "bat"   -> "create_shortcut.bat"

\* get_future_days_data not called yet
NoFuture == [called |-> FALSE, limit |-> 0, of |-> <<>>, rows |-> <<>>]

NoMain == [state |-> "none", cwd |-> <<>>, script |-> <<>>, inProcess |-> FALSE]
NoTemp == [exists |-> FALSE, lines |-> <<>>]
NoShortcut == [exists |-> FALSE, file |-> <<>>, TargetPath |-> <<>>,
               WorkingDirectory |-> <<>>, Description |-> <<>>, IconLocation |-> <<>>]

\* the directories on %PATH%, in order
PATH == << <<Drive, SEP, "Python311">>, <<Drive, SEP, "Python39">> >>

PathDirSet == {PATH[i] : i \in 1..Len(PATH)}

\* homes: every directory but the drive root
HomeDirs == {PathStr(c) : c \in DirComps \ {<<>>}}

DefaultHome == PathStr(<<"Users">>)

\* sys.path as the interpreter sets it up before the script runs
StdLib == <<Drive, SEP, "Python311", SEP, "Lib">>

\* what an earlier, interrupted run may have left in %TEMP%\CreateShortcut.vbs
StaleTemp == [exists |-> TRUE,
              lines |-> << [op |-> "assign", prop |-> "IconLocation", val |-> <<"stale.ico">>] >>]

InitLaunch ==
    /\ kind \in Kinds
    /\ \E L \in DirComps, W \in DirComps :
          /\ launcherDir = PathStr(L)
          /\ cwd = PathStr(W)
          /\ fileArg \in
                {PathStr(Append(L, LauncherFile(kind)))} \cup
                (IF kind \in {"recon", "fixed", "runpy"}
                 THEN {RelPath(W, Append(L, LauncherFile(kind)))}
                 ELSE {})
    /\ home \in (IF kind \in {"fixed", "bat"} THEN HomeDirs ELSE {DefaultHome})
    /\ pc = "start"
    /\ script_dir = <<>>
    /\ project_dir = <<>>
    /\ scriptDir = <<>>
    /\ SCRIPT_DIR = <<>>
    /\ DESKTOP = <<>>
    /\ sys_path \in (IF kind = "runpy" THEN {<<StdLib>>, <<launcherDir, StdLib>>} ELSE {<<>>})
    /\ main = NoMain
    /\ iconExists \in (IF kind = "bat" THEN BOOLEAN ELSE {FALSE})
    /\ pythonwDirs \in (IF kind = "bat" THEN SUBSET PathDirSet ELSE {{}})
    /\ tempScript \in (IF kind = "bat" THEN {NoTemp, StaleTemp} ELSE {NoTemp})
    /\ shortcut = NoShortcut
    /\ recon_data = <<>> /\ cached_excel_data = <<>> /\ pendingApply = <<>>
    /\ display = <<>> /\ refreshes = 0 /\ lastOp = <<>> /\ okApplied = FALSE
    /\ dayFiles = <<>> /\ today = 0 /\ dayPc = "none" /\ fileIdx = 0 /\ dfs = <<>>
    /\ day_data = <<>> /\ dayLoaded = FALSE /\ dayLog = <<>> /\ future = NoFuture

\* subprocess.Popen([sys.executable, "main.py"], cwd=dir): a child process whose
\* working directory is dir; "main.py" is resolved against it
Popen(dir) ==
    [state |-> "running", cwd |-> dir, script |-> Join(dir, <<"main.py">>),
     inProcess |-> FALSE]

\* ---- NIBOR_Recon.pyw
ReconScriptDir ==
    /\ kind = "recon" /\ pc = "start"
    /\ script_dir' = Dirname(AbsPath(fileArg, cwd))
    /\ pc' = "popen"
    /\ UNCHANGED <<kind, launcherDir, cwd, fileArg, home, project_dir, scriptDir,
                   SCRIPT_DIR, DESKTOP, sys_path, main, iconExists, pythonwDirs,
                   tempScript, shortcut>>
    /\ UNCHANGED <<excelVars, dayVars>>

ReconPopen ==
    /\ kind = "recon" /\ pc = "popen"
    /\ main' = Popen(script_dir)
    /\ pc' = "end"
    /\ UNCHANGED <<kind, launcherDir, cwd, fileArg, home, script_dir, project_dir,
                   scriptDir, SCRIPT_DIR, DESKTOP, sys_path, iconExists, pythonwDirs,
                   tempScript, shortcut>>
    /\ UNCHANGED <<excelVars, dayVars>>

\* faulty variant: the project directory looked up under the current directory
ProjectDirFromCwd(h) ==
    Join(Join(Join(Join(Join(cwd, <<"OneDrive - Swedbank">>),
                        <<"GroupTreasury-ShortTermFunding - Documents">>),
                   <<"Samba">>), <<"Samba">>), <<"Gitnewnew">>)

\* ---- the fixed-path launcher
ProjectDir(h) ==
    Join(Join(Join(Join(Join(h, <<"OneDrive - Swedbank">>),
                        <<"GroupTreasury-ShortTermFunding - Documents">>),
                   <<"Samba">>), <<"Samba">>), <<"Gitnewnew">>)

FixedProjectDir ==
    /\ kind = "fixed" /\ pc = "start"
    /\ project_dir' = ProjectDir(home)
    /\ pc' = "popen"
    /\ UNCHANGED <<kind, launcherDir, cwd, fileArg, home, script_dir, scriptDir,
                   SCRIPT_DIR, DESKTOP, sys_path, main, iconExists, pythonwDirs,
                   tempScript, shortcut>>
    /\ UNCHANGED <<excelVars, dayVars>>

FixedPopen ==
    /\ kind = "fixed" /\ pc = "popen"
    /\ main' = Popen(project_dir)
    /\ pc' = "end"
    /\ UNCHANGED <<kind, launcherDir, cwd, fileArg, home, script_dir, project_dir,
                   scriptDir, SCRIPT_DIR, DESKTOP, sys_path, iconExists, pythonwDirs,
                   tempScript, shortcut>>
    /\ UNCHANGED <<excelVars, dayVars>>

\* ---- start_nibor.vbs
VbsScriptDir ==
    /\ kind = "vbs" /\ pc = "start"
    /\ scriptDir' = GetParentFolderName(fileArg)
    /\ pc' = "chdir"
    /\ UNCHANGED <<kind, launcherDir, cwd, fileArg, home, script_dir, project_dir,
                   SCRIPT_DIR, DESKTOP, sys_path, main, iconExists, pythonwDirs,
                   tempScript, shortcut>>
    /\ UNCHANGED <<excelVars, dayVars>>

VbsChdir ==
    /\ kind = "vbs" /\ pc = "chdir"
    /\ cwd' = scriptDir
    /\ pc' = "run"
    /\ UNCHANGED <<kind, launcherDir, fileArg, home, script_dir, project_dir, scriptDir,
                   SCRIPT_DIR, DESKTOP, sys_path, main, iconExists, pythonwDirs,
                   tempScript, shortcut>>
    /\ UNCHANGED <<excelVars, dayVars>>

\* WshShell.Run "pythonw main.py", 0, False: a child that inherits the current
\* directory; the script does not wait for it
WshRun(dir) ==
    [state |-> "running", cwd |-> dir, script |-> Join(dir, <<"main.py">>),
     inProcess |-> FALSE]

\* faulty variant: Run called with bWaitOnReturn True, the script waits for pythonw
VbsRunWait ==
    /\ kind = "vbs" /\ pc = "run"
    /\ main' = WshRun(cwd)
    /\ pc' = "wait"
    /\ UNCHANGED <<kind, launcherDir, cwd, fileArg, home, script_dir, project_dir,
                   scriptDir, SCRIPT_DIR, DESKTOP, sys_path, iconExists, pythonwDirs,
                   tempScript, shortcut>>
    /\ UNCHANGED <<excelVars, dayVars>>

VbsRun ==
    /\ kind = "vbs" /\ pc = "run"
    /\ main' = WshRun(cwd)
    /\ pc' = "end"
    /\ UNCHANGED <<kind, launcherDir, cwd, fileArg, home, script_dir, project_dir,
                   scriptDir, SCRIPT_DIR, DESKTOP, sys_path, iconExists, pythonwDirs,
                   tempScript, shortcut>>
    /\ UNCHANGED <<excelVars, dayVars>>

\* ---- the runpy launcher
RunpyScriptDir ==
    /\ kind = "runpy" /\ pc = "start"
    /\ script_dir' = Dirname(AbsPath(fileArg, cwd))
    /\ pc' = "chdir"
    /\ UNCHANGED <<kind, launcherDir, cwd, fileArg, home, project_dir, scriptDir,
                   SCRIPT_DIR, DESKTOP, sys_path, main, iconExists, pythonwDirs,
                   tempScript, shortcut>>
    /\ UNCHANGED <<excelVars, dayVars>>

RunpyChdir ==
    /\ kind = "runpy" /\ pc = "chdir"
    /\ cwd' = script_dir
    /\ pc' = "syspath"
    /\ UNCHANGED <<kind, launcherDir, fileArg, home, script_dir, project_dir, scriptDir,
                   SCRIPT_DIR, DESKTOP, sys_path, main, iconExists, pythonwDirs,
                   tempScript, shortcut>>
    /\ UNCHANGED <<excelVars, dayVars>>

RunpySysPath ==
    /\ kind = "runpy" /\ pc = "syspath"
    /\ sys_path' = IF \E i \in 1..Len(sys_path) : sys_path[i] = script_dir
                    THEN sys_path
                    ELSE <<script_dir>> \o sys_path
    /\ pc' = "run_path"
    /\ UNCHANGED <<kind, launcherDir, cwd, fileArg, home, script_dir, project_dir,
                   scriptDir, SCRIPT_DIR, DESKTOP, main, iconExists, pythonwDirs,
                   tempScript, shortcut>>
    /\ UNCHANGED <<excelVars, dayVars>>

\* runpy.run_path(path, run_name="__main__"): main.py runs inside this process, in
\* its current directory
RunPath(path) ==
    [state |-> "running", cwd |-> cwd, script |-> path, inProcess |-> TRUE]

RunpyRunPath ==
    /\ kind = "runpy" /\ pc = "run_path"
    /\ main' = RunPath(Join(script_dir, <<"main.py">>))
    /\ pc' = "in_main"
    /\ UNCHANGED <<kind, launcherDir, cwd, fileArg, home, script_dir, project_dir,
                   scriptDir, SCRIPT_DIR, DESKTOP, sys_path, iconExists, pythonwDirs,
                   tempScript, shortcut>>
    /\ UNCHANGED <<excelVars, dayVars>>

\* run_path returns when main.py has run to its end
RunpyReturn ==
    /\ kind = "runpy" /\ pc = "in_main" /\ main.state = "exited"
    /\ pc' = "end"
    /\ UNCHANGED <<kind, launcherDir, cwd, fileArg, home, script_dir, project_dir,
                   scriptDir, SCRIPT_DIR, DESKTOP, sys_path, main, iconExists,
                   pythonwDirs, tempScript, shortcut>>
    /\ UNCHANGED <<excelVars, dayVars>>

\* main.py ends (the user closes the application)
MainExit ==
    /\ main.state = "running"
    /\ main' = [main EXCEPT !.state = "exited"]
    /\ UNCHANGED <<kind, launcherDir, cwd, fileArg, home, pc, script_dir, project_dir,
                   scriptDir, SCRIPT_DIR, DESKTOP, sys_path, iconExists, pythonwDirs,
                   tempScript, shortcut>>
    /\ UNCHANGED <<excelVars, dayVars>>
(***************************************************************************)
(* create_shortcut.bat                                                     *)
(***************************************************************************)
SHORTCUT_NAME == "NIBOR Terminal"

\* one statement of the generated CreateShortcut.vbs
Stmt(o, p, v) == [op |-> o, prop |-> p, val |-> v]

\* set SCRIPT_DIR=%~dp0 / set DESKTOP=%USERPROFILE%\Desktop
BatSet ==
    /\ kind = "bat" /\ pc = "start"
    /\ SCRIPT_DIR' = BatchDp0(fileArg)
    /\ DESKTOP' = home \o <<SEP, "Desktop">>
    /\ pc' = "echo"
    /\ UNCHANGED <<kind, launcherDir, cwd, fileArg, home, script_dir, project_dir,
                   scriptDir, sys_path, main, iconExists, pythonwDirs, tempScript,
                   shortcut>>
    /\ UNCHANGED <<excelVars, dayVars>>

\* the six echo lines: the first one (>) truncates the file, the others (>>) append
LinkLines ==
    << Stmt("create_shell", "", <<>>),
       Stmt("link_file", "sLinkFile", DESKTOP \o <<SEP, SHORTCUT_NAME, ".lnk">>),
       Stmt("create_shortcut", "", <<>>),
       Stmt("assign", "TargetPath", SCRIPT_DIR \o <<"start_nibor.vbs">>),
       Stmt("assign", "WorkingDirectory", SCRIPT_DIR),
       Stmt("assign", "Description", <<"NIBOR Calculation Terminal">>) >>

\* faulty variant: the first echo appends (>>) instead of truncating (>)
BatEchoLinkAppend ==
    /\ kind = "bat" /\ pc = "echo"
    /\ tempScript' = [exists |-> TRUE, lines |-> tempScript.lines \o LinkLines]
    /\ pc' = "icon"
    /\ UNCHANGED <<kind, launcherDir, cwd, fileArg, home, script_dir, project_dir,
                   scriptDir, SCRIPT_DIR, DESKTOP, sys_path, main, iconExists,
                   pythonwDirs, shortcut>>
    /\ UNCHANGED <<excelVars, dayVars>>

BatEchoLink ==
    /\ kind = "bat" /\ pc = "echo"
    /\ tempScript' = [exists |-> TRUE, lines |-> LinkLines]
    /\ pc' = "icon"
    /\ UNCHANGED <<kind, launcherDir, cwd, fileArg, home, script_dir, project_dir,
                   scriptDir, SCRIPT_DIR, DESKTOP, sys_path, main, iconExists,
                   pythonwDirs, shortcut>>
    /\ UNCHANGED <<excelVars, dayVars>>

RECURSIVE PathSearch(_, _)
\* %%~$PATH:I : the full name of the first match on PATH, the empty string if none
PathSearch(file, dirs) ==
    IF dirs = <<>> THEN <<>>
    ELSE IF Head(dirs) \in pythonwDirs THEN Join(Head(dirs), <<file>>)
    ELSE PathSearch(file, Tail(dirs))

\* if exist "%SCRIPT_DIR%assets\icon.ico" ( ... ) else ( for %%I in (pythonw.exe) ... )
IconLines ==
    IF iconExists
    THEN << Stmt("assign", "IconLocation", SCRIPT_DIR \o <<"assets", SEP, "icon.ico">>) >>
    ELSE << Stmt("assign", "IconLocation", PathSearch("pythonw.exe", PATH)) >>

BatIcon ==
    /\ kind = "bat" /\ pc = "icon"
    /\ tempScript' = [tempScript EXCEPT !.lines = @ \o IconLines]
    /\ pc' = "save"
    /\ UNCHANGED <<kind, launcherDir, cwd, fileArg, home, script_dir, project_dir,
                   scriptDir, SCRIPT_DIR, DESKTOP, sys_path, main, iconExists,
                   pythonwDirs, shortcut>>
    /\ UNCHANGED <<excelVars, dayVars>>

BatEchoSave ==
    /\ kind = "bat" /\ pc = "save"
    /\ tempScript' = [tempScript EXCEPT !.lines = Append(@, Stmt("save", "", <<>>))]
    /\ pc' = "cscript"
    /\ UNCHANGED <<kind, launcherDir, cwd, fileArg, home, script_dir, project_dir,
                   scriptDir, SCRIPT_DIR, DESKTOP, sys_path, main, iconExists,
                   pythonwDirs, shortcut>>
    /\ UNCHANGED <<excelVars, dayVars>>

RECURSIVE RunScript(_, _, _)
\* cscript on the generated script: oLink collects the assignments, oLink.Save
\* writes the link file
RunScript(lines, oLink, saved) ==
    IF lines = <<>> THEN saved
    ELSE LET s == Head(lines)
         IN  CASE s.op = "link_file" ->
                    RunScript(Tail(lines), [oLink EXCEPT !.file = s.val], saved)
               [] s.op = "assign" ->
                    RunScript(Tail(lines), [oLink EXCEPT ![s.prop] = s.val], saved)
               [] s.op = "save" ->
                    RunScript(Tail(lines), oLink, [oLink EXCEPT !.exists = TRUE])
               [] OTHER ->
                    RunScript(Tail(lines), oLink, saved)

BatCscript ==
    /\ kind = "bat" /\ pc = "cscript"
    /\ shortcut' = RunScript(tempScript.lines, NoShortcut, shortcut)
    /\ pc' = "del"
    /\ UNCHANGED <<kind, launcherDir, cwd, fileArg, home, script_dir, project_dir,
                   scriptDir, SCRIPT_DIR, DESKTOP, sys_path, main, iconExists,
                   pythonwDirs, tempScript>>
    /\ UNCHANGED <<excelVars, dayVars>>

BatDel ==
    /\ kind = "bat" /\ pc = "del"
    /\ tempScript' = NoTemp
    /\ pc' = "bat_end"
    /\ UNCHANGED <<kind, launcherDir, cwd, fileArg, home, script_dir, project_dir,
                   scriptDir, SCRIPT_DIR, DESKTOP, sys_path, main, iconExists,
                   pythonwDirs, shortcut>>
    /\ UNCHANGED <<excelVars, dayVars>>

\* the user opens the desktop shortcut: the shell starts the target with the
\* shortcut's working directory
OpenShortcut ==
    /\ kind = "bat" /\ pc = "bat_end" /\ shortcut.exists
    /\ kind' = "vbs"
    /\ fileArg' = shortcut.TargetPath
    /\ cwd' = NormDir(shortcut.WorkingDirectory)
    /\ pc' = "start"
    /\ UNCHANGED <<launcherDir, home, script_dir, project_dir, scriptDir, SCRIPT_DIR,
                   DESKTOP, sys_path, main, iconExists, pythonwDirs, tempScript,
                   shortcut>>
    /\ UNCHANGED <<excelVars, dayVars>>

NextLaunch ==
    \/ ReconScriptDir \/ ReconPopen
    \/ FixedProjectDir \/ FixedPopen
    \/ VbsScriptDir \/ VbsChdir \/ VbsRun
    \/ RunpyScriptDir \/ RunpyChdir \/ RunpySysPath \/ RunpyRunPath \/ RunpyReturn
    \/ MainExit
    \/ BatSet \/ BatEchoLink \/ BatIcon \/ BatEchoSave \/ BatCscript \/ BatDel
    \/ OpenShortcut

SpecLaunch == InitLaunch /\ [][NextLaunch]_vars

(***************************************************************************)
(* main.py: Excel refresh worker and cache; ui_pages.py: NOK Implied page  *)
(***************************************************************************)
\* Python's None; a number v is <<v>>
None == <<>>

\* Bound: refresh workers run in one behaviour.
MaxRefresh == 2

\* update() needs at least this many cached cells
MinCells == 10

TenorRows == 7..10

Alphabet == <<"A", "B", "C", "D", "E", "F", "G", "H", "I", "J", "K", "L", "M",
              "N", "O", "P", "Q", "R", "S", "T", "U", "V", "W", "X", "Y", "Z">>

\* 1-based index of a column letter
ColumnIndex(letter) == CHOOSE i \in 1..Len(Alphabet) : Alphabet[i] = letter

\* openpyxl coordinate_to_tuple: "T7" -> (7, 20); an address is <<letter, row>>
coordinate_to_tuple(addr) == <<addr[2], ColumnIndex(addr[1])>>

EmptyData == [c \in {} |-> None]

\* dict.get(key, None)
DictGet(d, key) == IF key \in DOMAIN d THEN d[key] ELSE None

\* _get_pips_from_excel: the cached value of the cell as a float, None if absent
get_pips_from_excel(cell_address) ==
    DictGet(cached_excel_data, coordinate_to_tuple(cell_address))

\* faulty variant: an "is not None" test in place of truthiness
TruthyNotNone(v) == v # None

\* Python truthiness of an optional number: None and 0 are false
Truthy(v) == v # None /\ v[1] # 0

\* (fwd - spot) * 10000 if fwd and spot else None
PipsBbg(fwd, spot) ==
    IF Truthy(fwd) /\ Truthy(spot) THEN <<(fwd[1] - spot[1]) * 10000>> ELSE None

\* USDNOK: forward in T, spot in S; EURNOK: forward in O, spot in N
FwdCol(ccy) == IF ccy = "USD" THEN "T" ELSE "O"
SpotCol(ccy) == IF ccy = "USD" THEN "S" ELSE "N"

Ccys == {"USD", "EUR"}

pips_bbg(ccy, row_num) ==
    PipsBbg(get_pips_from_excel(<<FwdCol(ccy), row_num>>),
            get_pips_from_excel(<<SpotCol(ccy), row_num>>))

\* one table row: PIPS BBG is the pips, PIPS EXC and IMPLIED are derived from it and
\* shown only when there are pips
RowCells(pips) == [bbg |-> pips, exc |-> pips # None, implied |-> pips # None]

Dash == RowCells(None)

BlankDisplay == [ccy \in Ccys |-> [r \in TenorRows |-> Dash]]

\* ---- the sheets load_recon_direct can read
CellKinds == {"missing", "none", "zero", "val"}

\* the value the sheet holds at a tenor cell of the given kind
CellValue(k, v) == IF k = "none" THEN None ELSE IF k = "zero" THEN <<0>> ELSE <<v>>

\* a sheet: fill cells in row 1, and the four tenor columns, the forward cells of
\* kind kf and the spot cells of kind ks for USDNOK, the other way round for EURNOK
Sheet(fill, kf, ks) ==
    LET cells == {<<1, c>> : c \in 1..fill}
                 \cup (IF kf = "missing" THEN {} ELSE {<<r, 20>> : r \in TenorRows})
                 \cup (IF ks = "missing" THEN {} ELSE {<<r, 19>> : r \in TenorRows})
                 \cup (IF ks = "missing" THEN {} ELSE {<<r, 15>> : r \in TenorRows})
                 \cup (IF kf = "missing" THEN {} ELSE {<<r, 14>> : r \in TenorRows})
    IN  [c \in cells |->
            CASE c[2] = 20 -> CellValue(kf, 92 + 2 * c[1])
              [] c[2] = 19 -> CellValue(ks, 100 + c[1])
              [] c[2] = 15 -> CellValue(ks, 95)
              [] c[2] = 14 -> CellValue(kf, 90 + c[1])
              [] OTHER -> <<c[2]>>]

Sheets == {Sheet(fill, kf, ks) : fill \in {0, MinCells}, kf \in CellKinds, ks \in CellKinds}

NoOp == [op |-> "none", ok |-> FALSE, proceeded |-> FALSE]

\* the application before any refresh: empty cache, a table of dashes; no launcher
\* and no day-file thread take part
InitExcel ==
    /\ recon_data = EmptyData
    /\ cached_excel_data = EmptyData
    /\ pendingApply = <<>>
    /\ display = BlankDisplay
    /\ refreshes = 0
    /\ lastOp = NoOp
    /\ okApplied = FALSE
    /\ kind = "none" /\ launcherDir = <<>> /\ cwd = <<>> /\ fileArg = <<>>
    /\ home = <<>> /\ pc = "none" /\ script_dir = <<>> /\ project_dir = <<>>
    /\ scriptDir = <<>> /\ SCRIPT_DIR = <<>> /\ DESKTOP = <<>> /\ sys_path = <<>>
    /\ main = NoMain /\ iconExists = FALSE /\ pythonwDirs = {}
    /\ tempScript = NoTemp /\ shortcut = NoShortcut
    /\ dayFiles = <<>> /\ today = 0 /\ dayPc = "none" /\ fileIdx = 0 /\ dfs = <<>>
    /\ day_data = <<>> /\ dayLoaded = FALSE /\ dayLog = <<>> /\ future = NoFuture

\* _worker_refresh_excel_then_bbg: load_recon_direct() succeeds with a sheet or fails;
\* the result is handed to the UI thread
WorkerRefresh ==
    /\ refreshes < MaxRefresh
    /\ \E excel_ok \in BOOLEAN :
          /\ IF excel_ok
             THEN recon_data' \in Sheets
             ELSE recon_data' \in {recon_data, EmptyData}
          /\ pendingApply' = Append(pendingApply, excel_ok)
          /\ lastOp' = [op |-> "load", ok |-> excel_ok, proceeded |-> FALSE]
    /\ refreshes' = refreshes + 1
    /\ UNCHANGED <<cached_excel_data, display, okApplied>>
    /\ UNCHANGED <<launchVars, dayVars>>

\* faulty variant: a failed load leaves the old cache in place
ApplyCacheKeepOld(excel_ok) == IF excel_ok THEN recon_data ELSE cached_excel_data

\* _apply_excel_result(excel_ok, excel_msg): the new value of cached_excel_data
ApplyCache(excel_ok) == IF excel_ok THEN recon_data ELSE EmptyData

apply_excel_result ==
    /\ pendingApply # <<>>
    /\ cached_excel_data' = ApplyCache(Head(pendingApply))
    /\ pendingApply' = Tail(pendingApply)
    /\ lastOp' = [op |-> "apply", ok |-> Head(pendingApply), proceeded |-> FALSE]
    /\ okApplied' = (okApplied \/ Head(pendingApply))
    /\ UNCHANGED <<recon_data, display, refreshes>>
    /\ UNCHANGED <<launchVars, dayVars>>

\* faulty variant: only the emptiness test, the cell count forgotten
ExcelLoadedNonEmpty == cached_excel_data # EmptyData

\* the guard of NokImpliedPage.update
ExcelLoaded ==
    cached_excel_data # EmptyData /\ Cardinality(DOMAIN cached_excel_data) >= MinCells

\* NokImpliedPage.update
NokImpliedPage_update ==
    /\ IF ExcelLoaded
       THEN display' = [ccy \in Ccys |-> [r \in TenorRows |-> RowCells(pips_bbg(ccy, r))]]
       ELSE display' = display
    /\ lastOp' = [op |-> "update", ok |-> FALSE, proceeded |-> ExcelLoaded]
    /\ UNCHANGED <<recon_data, cached_excel_data, pendingApply, refreshes, okApplied>>
    /\ UNCHANGED <<launchVars, dayVars>>

NextExcel ==
    \/ WorkerRefresh
    \/ apply_excel_result
    \/ NokImpliedPage_update

SpecExcel == InitExcel /\ [][NextExcel]_vars

(***************************************************************************)
(* engines.py: the background thread loading the NIBOR day files, and      *)
(* get_future_days_data                                                    *)
(***************************************************************************)
\* DAY_FILES has two entries
NumFiles == 2

\* Bound: rows of one day file.
MaxRows == 2

Dates == {1, 2, 3}

\* the date cell of a row: a date, or None when it does not parse
DateCells == {None} \cup {<<d>> : d \in Dates}

RowSeqs == UNION {[1..n -> DateCells] : n \in 0..MaxRows}

\* what opening and reading one day file gives
FileResults ==
    {[outcome |-> "missing", rows |-> <<>>], [outcome |-> "read_error", rows |-> <<>>]}
    \cup {[outcome |-> "ok", rows |-> rs] : rs \in RowSeqs}

\* the application at startup: the loading thread is about to run; no launcher and
\* no Excel refresh take part
InitDays ==
    /\ dayFiles \in [1..NumFiles -> FileResults]
    /\ today \in Dates
    /\ dayPc = "start"
    /\ fileIdx = 0
    /\ dfs = <<>>
    /\ day_data = <<>>
    /\ dayLoaded = FALSE
    /\ dayLog = <<>>
    /\ future = NoFuture
    /\ kind = "none" /\ launcherDir = <<>> /\ cwd = <<>> /\ fileArg = <<>>
    /\ home = <<>> /\ pc = "none" /\ script_dir = <<>> /\ project_dir = <<>>
    /\ scriptDir = <<>> /\ SCRIPT_DIR = <<>> /\ DESKTOP = <<>> /\ sys_path = <<>>
    /\ main = NoMain /\ iconExists = FALSE /\ pythonwDirs = {}
    /\ tempScript = NoTemp /\ shortcut = NoShortcut
    /\ recon_data = <<>> /\ cached_excel_data = <<>> /\ pendingApply = <<>>
    /\ display = <<>> /\ refreshes = 0 /\ lastOp = <<>> /\ okApplied = FALSE

\* "[ExcelEngine] Starting to load 2 day files..."
load_day_files_start ==
    /\ dayPc = "start"
    /\ dayLog' = Append(dayLog, "INFO")
    /\ fileIdx' = 1
    /\ dayPc' = "files"
    /\ UNCHANGED <<dayFiles, today, dfs, day_data, dayLoaded, future>>
    /\ UNCHANGED <<launchVars, excelVars>>

\* the console lines for one file: "Checking: ...", then "[ERROR]" for a missing
\* file, or "[OK] File exists" and "[OK] Successfully read" or "[ERROR]"
FileLog(f) ==
    CASE f.outcome = "missing"    -> <<"INFO", "ERROR">>
      [] f.outcome = "read_error" -> <<"INFO", "OK", "ERROR">>
      [] OTHER                    -> <<"INFO", "OK", "OK">>

\* faulty variant: the message for a file that fails cannot be encoded for the console; the
\* exception ends the thread with nothing written
load_day_files_file_crash ==
    /\ dayPc = "files"
    /\ IF dayFiles[fileIdx].outcome = "ok"
       THEN /\ dayLog' = dayLog \o FileLog(dayFiles[fileIdx])
            /\ dfs' = Append(dfs, dayFiles[fileIdx].rows)
            /\ fileIdx' = fileIdx + 1
            /\ dayPc' = IF fileIdx = NumFiles THEN "concat" ELSE "files"
       ELSE /\ dayPc' = "done"
            /\ UNCHANGED <<dayLog, dfs, fileIdx>>
    /\ UNCHANGED <<dayFiles, today, day_data, dayLoaded, future>>
    /\ UNCHANGED <<launchVars, excelVars>>

\* one turn of the loop over DAY_FILES
load_day_files_file ==
    /\ dayPc = "files"
    /\ dayLog' = dayLog \o FileLog(dayFiles[fileIdx])
    /\ dfs' = IF dayFiles[fileIdx].outcome = "ok"
               THEN Append(dfs, dayFiles[fileIdx].rows)
               ELSE dfs
    /\ fileIdx' = fileIdx + 1
    /\ dayPc' = IF fileIdx = NumFiles THEN "concat" ELSE "files"
    /\ UNCHANGED <<dayFiles, today, day_data, dayLoaded, future>>
    /\ UNCHANGED <<launchVars, excelVars>>

RECURSIVE Concat(_)
\* pd.concat of the dataframes read
Concat(frames) ==
    IF frames = <<>> THEN <<>> ELSE Head(frames) \o Concat(Tail(frames))

\* "Processing 'date' column...": rows whose date does not parse are dropped
DateProcess(rows) == SelectSeq(rows, LAMBDA d : d # None)

\* the end of the thread: nothing read is an error; otherwise the frames are
\* concatenated, the dates processed and "[OK] Day data loaded successfully" logged
load_day_files_finish ==
    /\ dayPc = "concat"
    /\ IF dfs = <<>>
       THEN /\ dayLog' = Append(dayLog, "ERROR")
            /\ UNCHANGED <<day_data, dayLoaded>>
       ELSE /\ day_data' = DateProcess(Concat(dfs))
            /\ dayLoaded' = TRUE
            /\ dayLog' = dayLog \o <<"INFO", "INFO", "OK">>
    /\ dayPc' = "done"
    /\ UNCHANGED <<dayFiles, today, fileIdx, dfs, future>>
    /\ UNCHANGED <<launchVars, excelVars>>

load_day_files_bg ==
    load_day_files_start \/ load_day_files_file \/ load_day_files_finish

\* the first n elements of a sequence
Take(sq, n) == SubSeq(sq, 1, IF n < Len(sq) THEN n ELSE Len(sq))

\* faulty variant: today's row left out
FutureRowsAfterToday(rows) == SelectSeq(rows, LAMBDA d : d[1] > today)

\* the rows dated today or later
FutureRows(rows) == SelectSeq(rows, LAMBDA d : d[1] >= today)

\* get_future_days_data with a row limit
get_future_days_data(limit_rows) == Take(FutureRows(day_data), limit_rows)

GetFutureDays ==
    /\ \E n \in 1..(NumFiles * MaxRows) :
          future' = [called |-> TRUE, limit |-> n, of |-> day_data,
                     rows |-> get_future_days_data(n)]
    /\ UNCHANGED <<dayFiles, today, dayPc, fileIdx, dfs, day_data, dayLoaded, dayLog>>
    /\ UNCHANGED <<launchVars, excelVars>>

NextDays == load_day_files_bg \/ GetFutureDays

SpecDays == InitDays /\ [][NextDays]_vars

\* the loading thread alone; once started it is scheduled until it ends
SpecDayThread == InitDays /\ [][load_day_files_bg]_vars /\ WF_vars(load_day_files_bg)

(***************************************************************************)
(* Claims about the launchers and create_shortcut.bat (under SpecLaunch)   *)
(***************************************************************************)

\* C1: NIBOR_Recon.pyw, start_nibor.vbs and the runpy launcher start main.py with
\* its working directory equal to the directory that holds the launcher file,
\* whatever the initial working directory; in start_nibor.vbs and the runpy launcher
\* the process has already changed to that directory at the step that starts main.py.
C1_MainRunsInLauncherDir ==
    /\ [](kind \in {"recon", "vbs", "runpy"} /\ main.state # "none"
            => main.cwd = launcherDir)
    /\ [][(kind \in {"vbs", "runpy"} /\ main.state = "none" /\ main'.state = "running")
            => cwd = launcherDir]_vars

\* C1 witness: NIBOR_Recon.pyw, started by a relative name from another directory,
\* has started main.py
C1_Witness ==
    /\ kind = "recon" /\ main.state = "running"
    /\ cwd # launcherDir /\ ~IsAbs(fileArg) /\ fileArg[1] = ".."

\* C2: the fixed-path launcher, wherever its file lies and whatever the initial
\* working directory, ends with main.py started in
\* <home>\OneDrive - Swedbank\GroupTreasury-ShortTermFunding - Documents\Samba\Samba\Gitnewnew:
\* the outcome is a function of the home directory alone.
C2_FixedLauncherUsesHome ==
    kind = "fixed" =>
        /\ (pc = "end" => main.state # "none")
        /\ (main.state # "none" =>
               /\ main.cwd = home \o <<SEP, "OneDrive - Swedbank",
                                        SEP, "GroupTreasury-ShortTermFunding - Documents",
                                        SEP, "Samba", SEP, "Samba", SEP, "Gitnewnew">>
               /\ ~main.inProcess)

\* C2 witness: the fixed-path launcher, lying outside the home directory and started
\* from a third directory, has started main.py
C2_Witness ==
    /\ kind = "fixed" /\ main.state = "running"
    /\ launcherDir # home /\ cwd # home /\ cwd # launcherDir

\* C3: when create_shortcut.bat has run, the link file
\* %USERPROFILE%\Desktop\NIBOR Terminal.lnk exists, its target is start_nibor.vbs in
\* the batch file's directory and its working directory is that directory; opening
\* the shortcut runs main.py of that directory, in that directory.
C3_ShortcutRunsProject ==
    /\ (kind = "bat" /\ pc = "bat_end" =>
           /\ shortcut.exists
           /\ shortcut.file = home \o <<SEP, "Desktop", SEP, "NIBOR Terminal", ".lnk">>
           /\ shortcut.TargetPath = Join(launcherDir, <<"start_nibor.vbs">>)
           /\ NormDir(shortcut.WorkingDirectory) = launcherDir)
    /\ (kind = "vbs" /\ shortcut.exists /\ main.state # "none" =>
           /\ main.cwd = launcherDir
           /\ main.script = Join(launcherDir, <<"main.py">>))

\* C3 witness: the shortcut made by the batch file of a project directory below the
\* root has been opened and main.py runs
C3_Witness ==
    /\ kind = "vbs" /\ shortcut.exists /\ main.state = "running"
    /\ launcherDir # Root

\* the IconLocation assignments of the generated script
IconAssignments(lines) ==
    SelectSeq(lines, LAMBDA st : st.op = "assign" /\ st.prop = "IconLocation")

\* C10: once the icon step of create_shortcut.bat has run, the generated script holds
\* exactly one IconLocation assignment: <script dir>\assets\icon.ico when that file
\* exists, otherwise pythonw.exe of the first PATH directory that holds one (the
\* empty string when no PATH directory does).
C10_OneIconLocation ==
    (kind = "bat" /\ pc \in {"save", "cscript", "del"}) =>
        /\ tempScript.exists
        /\ Len(IconAssignments(tempScript.lines)) = 1
        /\ LET v == IconAssignments(tempScript.lines)[1].val
           IN  IF iconExists
               THEN v = Join(launcherDir, <<"assets", SEP, "icon.ico">>)
               ELSE IF \A i \in 1..Len(PATH) : PATH[i] \notin pythonwDirs
               THEN v = <<>>
               ELSE \E i \in 1..Len(PATH) :
                       /\ PATH[i] \in pythonwDirs
                       /\ \A j \in 1..(i - 1) : PATH[j] \notin pythonwDirs
                       /\ v = PATH[i] \o <<SEP, "pythonw.exe">>

\* C10 witness: no custom icon, pythonw.exe only in the second PATH directory, and the
\* icon line has been written
C10_Witness ==
    /\ kind = "bat" /\ pc = "save" /\ ~iconExists
    /\ pythonwDirs = {PATH[2]}
    /\ Len(tempScript.lines) = Len(LinkLines) + 1

\* C11: NIBOR_Recon.pyw, the fixed-path launcher and start_nibor.vbs start main.py as
\* a process of its own and are at their end from the step that starts it, whether
\* main.py still runs or not; the runpy launcher runs main.py inside its own process,
\* stays inside run_path while main.py runs, and is at its end only after main.py
\* has ended.
C11_OnlyRunpyWaits ==
    /\ (kind \in {"recon", "fixed", "vbs"} /\ main.state # "none" =>
           /\ ~main.inProcess
           /\ pc = "end")
    /\ (kind = "runpy" /\ main.state # "none" =>
           /\ main.inProcess
           /\ (main.state = "running" => pc = "in_main")
           /\ (pc = "end" => main.state = "exited"))
    /\ (kind = "runpy" /\ pc = "end" => main.state = "exited")

\* C11 witness: start_nibor.vbs is at its end while the main.py it started still runs
C11_Witness ==
    kind = "vbs" /\ pc = "end" /\ main.state = "running" /\ ~main.inProcess

\* C11 second witness: the runpy launcher has ended, after the main.py it ran ended
C11_WitnessRunpy ==
    kind = "runpy" /\ pc = "end" /\ main.state = "exited" /\ main.inProcess

(***************************************************************************)
(* Claims about the Excel cache and the NOK Implied page (under SpecExcel) *)
(***************************************************************************)

\* C4: NokImpliedPage.update() leaves the page as it is whenever cached_excel_data
\* holds fewer than 10 cells (none included), and goes on to the pips lookups exactly
\* when it holds at least 10.
C4_UpdateNeedsTenCells ==
    /\ [](lastOp.op = "update" =>
            (lastOp.proceeded <=> Cardinality(DOMAIN cached_excel_data) >= 10))
    /\ [][(lastOp'.op = "update" /\ Cardinality(DOMAIN cached_excel_data) < 10)
            => display' = display]_vars

\* C4 witness: update() has returned early on a cache that is not empty but holds
\* fewer than 10 cells
C4_Witness ==
    /\ lastOp.op = "update" /\ ~lastOp.proceeded
    /\ Cardinality(DOMAIN cached_excel_data) \in 1..9

\* C5: right after _apply_excel_result, cached_excel_data holds exactly the entries
\* of excel_engine.recon_data (same cell count) when excel_ok was true, and is empty
\* when excel_ok was false.
C5_CacheMirrorsLoad ==
    lastOp.op = "apply" =>
        IF lastOp.ok
        THEN /\ DOMAIN cached_excel_data = DOMAIN recon_data
             /\ \A c \in DOMAIN recon_data : cached_excel_data[c] = recon_data[c]
             /\ Cardinality(DOMAIN cached_excel_data) = Cardinality(DOMAIN recon_data)
        ELSE Cardinality(DOMAIN cached_excel_data) = 0

\* C5 witness: a failed load has been applied while the engine still holds the cells
\* of an earlier load
C5_Witness ==
    /\ lastOp.op = "apply" /\ ~lastOp.ok
    /\ Cardinality(DOMAIN recon_data) >= 10

\* every PIPS BBG, PIPS EXC and IMPLIED cell of the table shows '-'
AllDashes ==
    \A ccy \in Ccys : \A r \in TenorRows :
        /\ display[ccy][r].bbg = None
        /\ ~display[ccy][r].exc
        /\ ~display[ccy][r].implied

\* C8 (as claimed): whenever NokImpliedPage.update has run on an empty
\* cached_excel_data, the PIPS BBG, PIPS EXC and IMPLIED columns show '-' for every
\* tenor; and the columns show values only after a successful _apply_excel_result.
C8_DashesWhenCacheEmpty ==
    /\ (lastOp.op = "update" /\ cached_excel_data = EmptyData => AllDashes)
    /\ (~AllDashes => okApplied)

\* C8 race: the page update has run while a load result was still waiting to be
\* applied
C8_UpdateBeforeApply ==
    lastOp.op = "update" /\ pendingApply # <<>> /\ cached_excel_data = EmptyData

\* the pips the claim gives for a forward and a spot cell of the cache
ClaimedPips(f, s) ==
    IF /\ f \in DOMAIN cached_excel_data /\ s \in DOMAIN cached_excel_data
       /\ cached_excel_data[f] # None /\ cached_excel_data[s] # None
       /\ cached_excel_data[f] # <<0>> /\ cached_excel_data[s] # <<0>>
    THEN <<(cached_excel_data[f][1] - cached_excel_data[s][1]) * 10000>>
    ELSE None

\* C9: after an update that went on to the lookups, for each tenor row 7..10 the BBG
\* pips shown are (forward - spot) * 10000 of the cells T and S (USDNOK) or O and N
\* (EURNOK) of that row when both are cached with a non-zero value, and None ('-')
\* when either cell is missing, None or zero.
C9_BbgPips ==
    (lastOp.op = "update" /\ lastOp.proceeded) =>
        \A r \in 7..10 :
            /\ display["USD"][r].bbg = ClaimedPips(<<r, 20>>, <<r, 19>>)
            /\ display["EUR"][r].bbg = ClaimedPips(<<r, 15>>, <<r, 14>>)

\* C9 witness: an update has shown pips from non-zero cells: 10000 for USDNOK 3M
\* (T9 = 110, S9 = 109) and -20000 for EURNOK 1M (O7 = 95, N7 = 97)
C9_Witness ==
    /\ lastOp.op = "update" /\ lastOp.proceeded
    /\ display["USD"][9].bbg = <<10000>>
    /\ display["EUR"][7].bbg = <<-20000>>

\* C9 second witness: a cached zero cell gives '-'
C9_WitnessZero ==
    /\ lastOp.op = "update" /\ lastOp.proceeded
    /\ <<7, 20>> \in DOMAIN cached_excel_data /\ <<7, 19>> \in DOMAIN cached_excel_data
    /\ cached_excel_data[<<7, 20>>] = <<0>> /\ cached_excel_data[<<7, 19>>] = <<107>>
    /\ display["USD"][7].bbg = None
(***************************************************************************)
(* Claims about the day files (under SpecDays and SpecDayThread)           *)
(***************************************************************************)

\* the number of rows of a sequence dated d or later
CountFrom(rows, d) == Cardinality({i \in 1..Len(rows) : rows[i][1] >= d})

\* C6: get_future_days_data() returns only rows of the loaded day data dated today
\* or later, in their loaded order, and no row dated before today; every loaded row
\* dated today or later is returned when the row limit leaves room for it.
C6_FutureRowsOnly ==
    future.called =>
        /\ \A i \in 1..Len(future.rows) : future.rows[i][1] >= today
        /\ \E keep \in SUBSET (1..Len(future.of)) :
              /\ Cardinality(keep) = Len(future.rows)
              /\ \A i \in 1..Len(future.rows) :
                    LET k == CHOOSE k \in keep :
                                 Cardinality({j \in keep : j < k}) = i - 1
                    IN  future.rows[i] = future.of[k]
        /\ (future.limit >= CountFrom(future.of, today)
              => Len(future.rows) = CountFrom(future.of, today))

\* C6 witness: the loaded data holds a row before today, today's row and a later row,
\* and a call has returned the two that are not in the past
C6_Witness ==
    /\ future.called /\ dayLoaded /\ future.of = day_data
    /\ \E i \in 1..Len(day_data) : day_data[i][1] < today
    /\ \E i \in 1..Len(day_data) : day_data[i][1] = today
    /\ \E i \in 1..Len(day_data) : day_data[i][1] > today
    /\ Len(future.rows) = 2

\* the console log holds an error message
ErrorLogged == \E i \in 1..Len(dayLog) : dayLog[i] = "ERROR"

\* C7: the background loading thread always comes to its end, and at its end either
\* the day data is loaded or an error message is in the console log, whatever the
\* outcome (missing, read error, success) of each day file.
C7_NoSilentFailure ==
    /\ <>(dayPc = "done")
    /\ [](dayPc = "done" => (dayLoaded \/ ErrorLogged))

\* C7 witness: the thread has ended without data, one file missing and the other
\* unreadable, and the log holds the errors
C7_Witness ==
    /\ dayPc = "done" /\ ~dayLoaded /\ ErrorLogged
    /\ dayFiles[1].outcome = "missing" /\ dayFiles[2].outcome = "read_error"
====
